---- MODULE Spec2Model ----
(***************************************************************************)
(* Cursor tracking of src/platform/macos.rs: the seed check of get_cursor, *)
(* reset_input_cache, the fingerprint get_cursor_id and the extractor      *)
(* get_cursor_data, over a model of the OS cursor subsystem.               *)
(*                                                                         *)
(* Numbers: sizes and hotspots are whole numbers of pixels.  A colour      *)
(* channel is the f64 k/255 of an 8-bit sample and is kept as its          *)
(* numerator k; the f64 accumulator hcursor is kept as a numerator over    *)
(* ChanMax, so that the final truncation is computed, not assumed.         *)
(***************************************************************************)
EXTENDS Integers, Sequences, FiniteSets, TLC

\* ------------------------------------------------------------ bounds
MaxSize == 2      \* logical image width/height of the enumerated cursors
MaxRep == 2       \* representation width/height of the enumerated cursors
LiveRep == 1      \* representation width of the cursors the OS switches between
MaxSeed == 1      \* the OS counter ranges over -1 .. MaxSeed
MaxPolls == 2     \* polls counted after one OS cursor switch
MaxFresh == 3     \* the OS counter values 1 .. MaxFresh, each taken once

\* ------------------------------------------------------------ program constants
ChanMax == 255    \* the 255 of (255 << i) and of (r * 255.) as u8
Sentinel == 0     \* static mut LATEST_SEED: i32 = 0; LATEST_SEED = 0

\* ------------------------------------------------------------ OS data
Nil == [r |-> -1, g |-> -1, b |-> -1, a |-> -1]   \* the nil NSColor
Black == [r |-> 0, g |-> 0, b |-> 0, a |-> 255]
White == [r |-> 255, g |-> 255, b |-> 255, a |-> 255]
Red == [r |-> 255, g |-> 0, b |-> 0, a |-> 255]
Clear == [r |-> 0, g |-> 0, b |-> 0, a |-> 0]
\* The colours of the enumerated bitmaps: two whose channel totals are in
\* the ratio 1 : 2.
Palette == {Black, Red}

Seeds == -1 .. MaxSeed
\* Object addresses [NSCursor currentSystemCursor] may return: the same
\* object again, or a fresh one.
Handles == {1, 2}

\* What the OS fails to hand out: each value is one nil / empty answer the
\* code tests for.
Faults == {"none", "no_cursor", "no_image", "no_tiff", "no_rep", "no_reps", "empty_reps"}

Coords(rw, rh) == (0 .. rw - 1) \X (0 .. rh - 1)

\* Bitmaps of rw x rh pixels: a background colour and at most one pixel that
\* has another colour, is transparent or cannot be sampled.
Images(rw, rh) ==
  { [p \in Coords(rw, rh) |-> IF p = s THEN sc ELSE bg] :
      bg \in Palette, s \in Coords(rw, rh), sc \in Palette \cup {Clear, Nil} }

Geoms(ms) ==
  { g \in (1 .. ms) \X (1 .. ms) \X (0 .. ms - 1) \X (0 .. ms - 1) :
      g[3] < g[1] /\ g[4] < g[2] }

MkCursor(g, r, im) ==
  [w |-> g[1], h |-> g[2], hx |-> g[3], hy |-> g[4],
   rw |-> r[1], rh |-> r[2], pix |-> im]

CursorsOf(ms, mr) ==
  UNION { UNION { { MkCursor(g, r, im) : im \in Images(r[1], r[2]) } :
                  r \in (1 .. mr) \X (1 .. mr) } : g \in Geoms(ms) }

\* Bitmaps with one pixel that cannot be sampled and one other pixel of
\* another colour, on cursors of the largest size.
HoleImages(rw, rh) ==
  { [p \in Coords(rw, rh) |-> IF p = hole THEN Nil ELSE IF p = s THEN sc ELSE bg] :
      bg \in Palette, hole \in Coords(rw, rh), s \in Coords(rw, rh),
      sc \in Palette \cup {Clear} }
HoleCursors(ms) ==
  { MkCursor(<<ms, ms, 0, 0>>, <<ms, ms>>, im) : im \in HoleImages(ms, ms) }

Cursors == CursorsOf(MaxSize, MaxRep) \cup HoleCursors(MaxSize)
\* The cursors the OS switches between while the capture loop runs: the
\* 1x1 cursors whose representation is one row of at most LiveRep pixels.
LiveCursors ==
  UNION { { MkCursor(<<1, 1, 0, 0>>, <<rw, 1>>, im) : im \in Images(rw, 1) } :
          rw \in 1 .. LiveRep }

Uniform(rw, rh, col) == [p \in Coords(rw, rh) |-> col]
\* Section 8 of the spec: cursor A, 16x16, hotspot (0,0), opaque black;
\* cursor B, 32x32, hotspot (16,16), opaque white.
CursorA == MkCursor(<<16, 16, 0, 0>>, <<16, 16>>, Uniform(16, 16, Black))
CursorB == MkCursor(<<32, 32, 16, 16>>, <<32, 32>>, Uniform(32, 32, White))

\* ------------------------------------------------------------ results
NoData == [id |-> 0, colors |-> <<>>, hotx |-> 0, hoty |-> 0, width |-> 0, height |-> 0]
Res(tag, msg, handle, id, data) ==
  [tag |-> tag, msg |-> msg, handle |-> handle, id |-> id, data |-> data]
Err(msg) == Res("Err", msg, 0, 0, NoData)
OkId(handle, id) == Res("Ok", "", handle, id, NoData)
OkData(data) == Res("Ok", "", 0, data.id, data)
OkNone == Res("None", "", 0, 0, NoData)
OkSome(id) == Res("Some", "", 0, id, NoData)
Unit == Res("Unit", "", 0, 0, NoData)

\* ------------------------------------------------------------ get_cursor_id
\* f64 -> usize / u64 / u8 casts truncate and saturate at 0.
AsUnsigned(num, den) == IF num < 0 THEN 0 ELSE num \div den
AsU8(num, den) == IF num < 0 THEN 0 ELSE IF num \div den > 255 THEN 255 ELSE num \div den

\* [rep colorAtX:x y:y]: nil outside the bitmap or where no colour can be read.
colorAtX(c, x, y) ==
  IF x >= 0 /\ x < c.rw /\ y >= 0 /\ y < c.rh THEN c.pix[<<x, y>>] ELSE Nil

\* 255 << i
Shl255NoShift(i) == ChanMax
Shl255(i) == IF i = 0 THEN ChanMax ELSE 2 * ChanMax

\* Lines 329-339: the pixel sampled in round i of the loop.
SampleXNoClamp(c, i) == AsUnsigned(c.rw * c.hx, c.w) + i
SampleX(c, i) ==
  LET x == AsUnsigned(c.rw * c.hx, c.w)
  IN  IF x + i >= c.rw THEN c.rw - 1 ELSE x + i
SampleY(c, i) ==
  LET y == AsUnsigned(c.rh * c.hy, c.h)
  IN  IF y + i >= c.rh THEN c.rh - 1 ELSE y + i
SampleColor(c, i) == colorAtX(c, SampleX(c, i), SampleY(c, i))

\* Lines 341-347: what round i adds to hcursor, as a numerator over ChanMax.
SampleTerm(c, i) ==
  LET color == SampleColor(c, i)
  IN  IF color # Nil
        THEN (color.r + color.g + color.b + color.a) * Shl255(i)
        ELSE 0

\* Lines 327-349: hcursor as u64.
Hcursor(c) ==
  LET base == c.w + c.h + c.hx + c.hy + c.rw + c.rh
  IN  AsUnsigned(base * ChanMax + SampleTerm(c, 0) + SampleTerm(c, 1), ChanMax)

\* get_cursor_id() on OS cursor c, with the OS in state f and the cursor
\* object at address hd.
get_cursor_id_handle_mixed_in(c, f, hd) ==
  IF ~(f \in {"none", "no_reps", "empty_reps"}) THEN Err("Failed to call")
  ELSE OkId(hd, Hcursor(c) + hd)
get_cursor_id(c, f, hd) ==
  IF f = "no_cursor" THEN Err("Failed to call [NSCursor currentSystemCursor]")
  ELSE IF f = "no_image" THEN Err("Failed to call [NSCursor image]")
  ELSE IF f = "no_tiff" THEN Err("Failed to call [NSImage TIFFRepresentation]")
  ELSE IF f = "no_rep" THEN Err("Failed to call [NSBitmapImageRep imageRepWithData]")
  ELSE OkId(hd, Hcursor(c))

\* ------------------------------------------------------------ get_cursor_data
\* Lines 382-383: the (x, y) the two loops visit, in order.
WalkOrder(c) == [k \in 1 .. (c.w * c.h) |-> <<(k - 1) % c.w, (k - 1) \div c.w>>]

\* Lines 386-388: the visited positions that are not skipped.
ReadableZeroFilled(c) == WalkOrder(c)
Readable(c) == SelectSeq(WalkOrder(c), LAMBDA p : colorAtX(c, p[1], p[2]) # Nil)

\* Lines 389-396: the four bytes pushed for one colour.
PixelBytesUnscaled(color) ==
  << AsU8(color.r, ChanMax), AsU8(color.g, ChanMax),
     AsU8(color.b, ChanMax), AsU8(color.a, ChanMax) >>
PixelBytes(color) ==
  << AsU8(color.r * 255, ChanMax), AsU8(color.g * 255, ChanMax),
     AsU8(color.b * 255, ChanMax), AsU8(color.a * 255, ChanMax) >>

Colors(c) ==
  LET rd == Readable(c)
  IN  [j \in 1 .. 4 * Len(rd) |->
         LET p == rd[((j - 1) \div 4) + 1]
         IN  PixelBytes(colorAtX(c, p[1], p[2]))[((j - 1) % 4) + 1]]

\* Line 357: hcursor != hcursor2
StaleGuardWrongTest(hcursor, hcursor2) == hcursor > hcursor2
StaleGuardMissing(hcursor, hcursor2) == FALSE
StaleGuard(hcursor, hcursor2) == hcursor # hcursor2

get_cursor_data_rep_size(c, f, hd, hcursor) ==
  LET got == get_cursor_id(c, f, hd)
  IN  IF got.tag = "Err" THEN got
      ELSE IF StaleGuard(hcursor, got.id) THEN Err("cursor changed")
      ELSE IF f = "no_reps" THEN Err("Failed to call [NSImage representations]")
      ELSE IF f = "empty_reps" THEN Err("Get empty [NSImage representations]")
      ELSE OkData([id |-> hcursor, colors |-> Colors(c),
                   hotx |-> AsUnsigned(c.hx, 1), hoty |-> AsUnsigned(c.hy, 1),
                   width |-> AsUnsigned(c.rw, 1), height |-> AsUnsigned(c.rh, 1)])
get_cursor_data(c, f, hd, hcursor) ==
  LET got == get_cursor_id(c, f, hd)
  IN  IF got.tag = "Err" THEN got
      ELSE IF StaleGuard(hcursor, got.id) THEN Err("cursor changed")
      ELSE IF f = "no_reps" THEN Err("Failed to call [NSImage representations]")
      ELSE IF f = "empty_reps" THEN Err("Get empty [NSImage representations]")
      ELSE OkData([id |-> hcursor, colors |-> Colors(c),
                   hotx |-> AsUnsigned(c.hx, 1), hoty |-> AsUnsigned(c.hy, 1),
                   width |-> AsUnsigned(c.w, 1), height |-> AsUnsigned(c.h, 1)])

\* ------------------------------------------------------------ state
VARIABLES
  cursor,       \* OS: the current system cursor (geometry and bitmap)
  fault,        \* OS: what it currently fails to hand out
  osSeed,       \* OS: CGSCurrentCursorSeed()
  LATEST_SEED,  \* static mut LATEST_SEED: i32
  call,         \* the last call made by the capture loop, with what it read
  ret,          \* and what it returned
  lastPoll,     \* history: the seed the previous get_cursor read, or the reset since
  since,        \* history: the polls made since the last OS cursor switch
  undelivered,  \* history: a seed change was detected and its identity not yet delivered
  threads,      \* concurrent callers of get_cursor: where each is, the seed it read, its result
  obs,          \* history of the concurrent callers
  hist          \* history: the identity a session holds, the identity last delivered

vars == <<cursor, fault, osSeed, LATEST_SEED, call, ret, lastPoll, since, undelivered,
          threads, obs, hist>>
seqVars == <<call, ret, lastPoll, since, undelivered>>
raceVars == <<threads, obs>>

\* Two capture loops.
Threads == {1, 2}
\* A caller of get_cursor is outside it ("idle"), has read the seed (line 290),
\* has found it changed (line 291) and is about to store it, or has stored
\* it (line 294) and is about to fingerprint.
AtRest == [pc |-> "idle", seed |-> 0, tag |-> "Unit", id |-> 0]
NoProbe == [seen |-> FALSE, changed |-> FALSE]
NoObs ==
  [fresh |-> {}, overlapped |-> FALSE, reported |-> FALSE, again |-> FALSE, reset |-> "no", probe |-> 0,
   after |-> NoProbe]
\* Nothing fingerprinted and nothing delivered yet.
NoHist ==
  [held |-> FALSE, id |-> 0, events |-> {},
   sinceStop |-> "none", firstOut |-> "none", mid |-> FALSE,
   delivered |-> FALSE, last |-> 0]

Call(name, hcursor, seed, stored, prev, calls) ==
  [name |-> name, hcursor |-> hcursor, seed |-> seed, stored |-> stored,
   prev |-> prev, calls |-> calls]
NoPoll == [kind |-> "none", seed |-> 0]
Idle == Call("idle", 0, 0, 0, NoPoll, <<>>)
NoSwitch == [on |-> FALSE, polls |-> 0, hits |-> 0, first |-> FALSE]

\* get_cursor_data is called with an identity some cursor of the catalog has,
\* or with 0.
ExtractArgs(C) == { Hcursor(c) : c \in C } \cup {0}
LiveIds == ExtractArgs(LiveCursors)

InitWith(C, F, S) ==
  /\ cursor \in C
  /\ fault \in F
  /\ osSeed \in S
  /\ LATEST_SEED = Sentinel
  /\ call = Idle
  /\ ret = Unit
  /\ lastPoll = NoPoll
  /\ since = NoSwitch
  /\ undelivered = FALSE
  /\ threads = [t \in Threads |-> AtRest]
  /\ obs = NoObs
  /\ hist = NoHist

\* ------------------------------------------------------------ the OS
\* The system cursor is set: the generation counter moves to another value.
OsCursorChange(C) ==
  \E c \in C, s \in Seeds \ {osSeed} :
    /\ cursor' = c
    /\ osSeed' = s
    /\ since' = [on |-> TRUE, polls |-> 0, hits |-> 0, first |-> FALSE]
    /\ undelivered' = FALSE
    /\ call' = Idle
    /\ ret' = Unit
    /\ UNCHANGED <<fault, LATEST_SEED, lastPoll, threads, obs>>

\* The OS starts or stops handing out the cursor, its image or a
\* representation; the counter does not move.
OsFault ==
  \E f \in Faults \ {fault} :
    /\ fault' = f
    /\ call' = Idle
    /\ ret' = Unit
    /\ UNCHANGED <<cursor, osSeed, LATEST_SEED, lastPoll, since, undelivered, threads, obs>>

\* ------------------------------------------------------------ get_cursor
\* Line 291: seed == LATEST_SEED
SeedUnchangedOrSentinel(seed, latest) == seed = latest \/ seed = Sentinel
SeedUnchanged(seed, latest) == seed = latest

\* Line 294: the value stored on the change path
StoredSeedNotStored(seed, latest) == latest
StoredSeed(seed, latest) == seed

\* Lines 296-297
get_cursor_tail_handle(c, f, hd) ==
  LET got == get_cursor_id(c, f, hd)
  IN  IF got.tag = "Err" THEN got ELSE OkSome(got.handle)
get_cursor_tail(c, f, hd) ==
  LET got == get_cursor_id(c, f, hd)
  IN  IF got.tag = "Err" THEN got ELSE OkSome(got.id)

GetCursor ==
  \E hd \in Handles :
    LET seed == osSeed
        same == SeedUnchanged(seed, LATEST_SEED)
        out == IF same THEN OkNone ELSE get_cursor_tail(cursor, fault, hd)
    IN  /\ LATEST_SEED' = IF same THEN LATEST_SEED ELSE StoredSeed(seed, LATEST_SEED)
        /\ ret' = out
        /\ call' = Call("get_cursor", 0, seed, LATEST_SEED, lastPoll,
                        IF same THEN <<"CGSCurrentCursorSeed">>
                                ELSE <<"CGSCurrentCursorSeed", "get_cursor_id">>)
        /\ lastPoll' = [kind |-> "poll", seed |-> seed]
        /\ since' = IF since.on /\ since.polls < MaxPolls
                      THEN [on |-> TRUE, polls |-> since.polls + 1,
                            hits |-> since.hits + (IF same THEN 0 ELSE 1),
                            first |-> IF since.polls = 0 THEN ~same ELSE since.first]
                      ELSE since
        /\ undelivered' = IF out.tag = "Some" THEN FALSE
                          ELSE IF out.tag = "Err" THEN TRUE
                          ELSE undelivered
        /\ UNCHANGED <<cursor, fault, osSeed, threads, obs>>

\* ------------------------------------------------------------ reset_input_cache
ResetInputCacheNoWrite ==
  /\ LATEST_SEED' = LATEST_SEED
  /\ call' = Call("reset_input_cache", 0, 0, LATEST_SEED, lastPoll, <<>>)
  /\ ret' = Unit
  /\ lastPoll' = [kind |-> "reset", seed |-> 0]
  /\ since' = NoSwitch
  /\ UNCHANGED <<cursor, fault, osSeed, undelivered, threads, obs>>
ResetInputCache ==
  /\ LATEST_SEED' = Sentinel
  /\ call' = Call("reset_input_cache", 0, 0, LATEST_SEED, lastPoll, <<>>)
  /\ ret' = Unit
  /\ lastPoll' = [kind |-> "reset", seed |-> 0]
  /\ since' = NoSwitch
  /\ UNCHANGED <<cursor, fault, osSeed, undelivered, threads, obs>>

\* ------------------------------------------------------------ fingerprint, extract
GetCursorIdWritesSeed ==
  \E hd \in Handles :
    /\ ret' = get_cursor_id(cursor, fault, hd)
    /\ call' = Call("get_cursor_id", 0, 0, LATEST_SEED, lastPoll, <<"get_cursor_id">>)
    /\ LATEST_SEED' = osSeed
    /\ UNCHANGED <<cursor, fault, osSeed, lastPoll, since, undelivered, threads, obs>>
GetCursorId ==
  \E hd \in Handles :
    /\ ret' = get_cursor_id(cursor, fault, hd)
    /\ call' = Call("get_cursor_id", 0, 0, LATEST_SEED, lastPoll, <<"get_cursor_id">>)
    /\ UNCHANGED <<cursor, fault, osSeed, LATEST_SEED, lastPoll, since, undelivered,
                    threads, obs>>

GetCursorData(ids) ==
  \E hd \in Handles, hcursor \in ids :
    /\ ret' = get_cursor_data(cursor, fault, hd, hcursor)
    /\ call' = Call("get_cursor_data", hcursor, 0, LATEST_SEED, lastPoll,
                    <<"get_cursor_id">>)
    /\ UNCHANGED <<cursor, fault, osSeed, LATEST_SEED, lastPoll, since, undelivered,
                    threads, obs>>

\* ------------------------------------------------------------ specifications
\* The capture loop against a live OS.
Init == InitWith(LiveCursors, Faults, Seeds)
Next ==
  \/ OsCursorChange(LiveCursors) /\ UNCHANGED hist
  \/ OsFault /\ UNCHANGED hist
  \/ GetCursor /\ UNCHANGED hist
  \/ ResetInputCache /\ UNCHANGED hist
  \/ GetCursorId /\ UNCHANGED hist
  \/ GetCursorData(LiveIds) /\ UNCHANGED hist
Spec == Init /\ [][Next]_vars

\* The fingerprint and the extractor applied to every enumerated cursor.
\* get_cursor_data is given the identity of the cursor shown, or another one.
InitFn == InitWith(Cursors, {"none"}, {1})
NextFn ==
  \/ GetCursor /\ UNCHANGED hist
  \/ ResetInputCache /\ UNCHANGED hist
  \/ GetCursorId /\ UNCHANGED hist
  \/ GetCursorData({Hcursor(cursor), Hcursor(cursor) + 1}) /\ UNCHANGED hist
SpecFn == InitFn /\ [][NextFn]_vars

\* The end-to-end scenario: the OS shows cursor A and switches between A and B.
ScenarioCursors == {CursorA, CursorB}
ScenarioIds == ExtractArgs(ScenarioCursors)
InitAB == InitWith({CursorA}, {"none"}, Seeds)
NextAB ==
  \/ OsCursorChange(ScenarioCursors) /\ UNCHANGED hist
  \/ GetCursor /\ UNCHANGED hist
  \/ ResetInputCache /\ UNCHANGED hist
  \/ GetCursorId /\ UNCHANGED hist
  \/ GetCursorData(ScenarioIds) /\ UNCHANGED hist
SpecAB == InitAB /\ [][NextAB]_vars

\* ------------------------------------------------------------ concurrent callers
\* get_cursor run by two capture loops and reset_input_cache run by a
\* session, their reads and writes of LATEST_SEED interleaved: the static is
\* read and written without synchronization.
RaceCursors == { MkCursor(<<1, 1, 0, 0>>, <<1, 1>>, Uniform(1, 1, col)) : col \in Palette }
Others(t) == { u \in Threads : u # t /\ threads[u].pc # "idle" }

\* Line 290: let seed = CGSCurrentCursorSeed();
TRead(t) ==
  /\ threads[t].pc = "idle"
  /\ threads' = [threads EXCEPT ![t] = [pc |-> "read", seed |-> osSeed, tag |-> "Unit", id |-> 0]]
  /\ obs' = [obs EXCEPT
       !.fresh = @ \cup {t},
       !.overlapped = @ \/ Others(t) # {},
       !.reset = IF obs.reset = "settled" THEN "probing" ELSE "no",
       !.probe = IF obs.reset = "settled" THEN t ELSE 0,
       !.after = NoProbe]
  /\ UNCHANGED <<cursor, fault, osSeed, LATEST_SEED, seqVars>>

\* Lines 291-293: if seed == LATEST_SEED { return Ok(None); }
TCompare(t) ==
  /\ threads[t].pc = "read"
  /\ LET same == SeedUnchanged(threads[t].seed, LATEST_SEED)
     IN  /\ threads' = [threads EXCEPT ![t] =
                          IF same THEN [pc |-> "idle", seed |-> @.seed, tag |-> "None", id |-> 0]
                                  ELSE [pc |-> "store", seed |-> @.seed, tag |-> "Unit", id |-> 0]]
         /\ obs' = IF obs.probe = t
                     THEN [obs EXCEPT !.reset = "no", !.probe = 0,
                                      !.after = [seen |-> threads[t].seed # Sentinel,
                                                 changed |-> ~same]]
                     ELSE obs
  /\ UNCHANGED <<cursor, fault, osSeed, LATEST_SEED, seqVars>>

TStoreNoWrite(t) ==
  /\ threads[t].pc = "store"
  /\ threads' = [threads EXCEPT ![t].pc = "id"]
  /\ UNCHANGED <<cursor, fault, osSeed, LATEST_SEED, obs, seqVars>>

\* Line 294: LATEST_SEED = seed;
TStore(t) ==
  /\ threads[t].pc = "store"
  /\ LATEST_SEED' = StoredSeed(threads[t].seed, LATEST_SEED)
  /\ threads' = [threads EXCEPT ![t].pc = "id"]
  /\ UNCHANGED <<cursor, fault, osSeed, obs, seqVars>>

\* Lines 296-297: get_cursor_id()? and the return.
TFinish(t) ==
  \E hd \in Handles :
    /\ threads[t].pc = "id"
    /\ threads' = [threads EXCEPT ![t] =
                     [pc |-> "idle", seed |-> @.seed,
                      tag |-> get_cursor_tail(cursor, fault, hd).tag,
                      id |-> get_cursor_tail(cursor, fault, hd).id]]
    /\ obs' = [obs EXCEPT
         !.reported = @ \/ t \in obs.fresh,
         !.again = @ \/ (obs.reported /\ t \in obs.fresh),
         !.reset = IF obs.reset = "raced" /\ Others(t) = {} THEN "settled" ELSE @]
    /\ UNCHANGED <<cursor, fault, osSeed, LATEST_SEED, seqVars>>

\* Line 302, while a get_cursor may be under way.
RaceReset ==
  /\ LATEST_SEED' = Sentinel
  /\ obs' = [obs EXCEPT
       !.fresh = {}, !.overlapped = FALSE, !.reported = FALSE, !.again = FALSE,
       !.reset = IF \E t \in Threads : threads[t].pc = "store" THEN "raced" ELSE "no",
       !.probe = 0,
       !.after = NoProbe]
  /\ UNCHANGED <<cursor, fault, osSeed, threads, seqVars>>

\* The OS sets a cursor while the callers run.
RaceOsChange ==
  \E c \in RaceCursors, s \in Seeds \ {osSeed} :
    /\ cursor' = c
    /\ osSeed' = s
    /\ obs' = [obs EXCEPT !.fresh = {}, !.overlapped = FALSE, !.reported = FALSE, !.again = FALSE]
    /\ UNCHANGED <<fault, LATEST_SEED, threads, seqVars>>

InitRace == InitWith(RaceCursors, {"none"}, Seeds)
NextRace ==
  \/ \E t \in Threads : TRead(t) /\ UNCHANGED hist
  \/ \E t \in Threads : TCompare(t) /\ UNCHANGED hist
  \/ \E t \in Threads : TStore(t) /\ UNCHANGED hist
  \/ \E t \in Threads : TFinish(t) /\ UNCHANGED hist
  \/ RaceReset /\ UNCHANGED hist
  \/ RaceOsChange /\ UNCHANGED hist
SpecRace == InitRace /\ [][NextRace]_vars

\* ------------------------------------------------------------ a session holding an identity
\* The capture loop against a live OS, with the identity get_cursor_id last
\* returned for the cursor as it is now, and what was called since.
Noted(e) == [hist EXCEPT !.events = IF hist.held THEN @ \cup {e} ELSE @]

HoldFingerprint ==
  /\ GetCursorId
  /\ hist' = IF ret'.tag = "Ok"
               THEN [hist EXCEPT !.held = TRUE, !.id = ret'.id, !.events = {}]
               ELSE hist

\* get_cursor_data is given the identity held.
HoldExtract ==
  /\ hist.held
  /\ GetCursorData({hist.id})
  /\ UNCHANGED hist

HoldPoll ==
  /\ GetCursor
  /\ hist' = Noted("poll")

HoldReset ==
  /\ ResetInputCache
  /\ hist' = Noted("reset")

\* The counter moves; the cursor set is the one shown already, or another one.
HoldOsChange ==
  /\ OsCursorChange(RaceCursors)
  /\ hist' = IF cursor' = cursor THEN Noted("seed") ELSE NoHist

HoldOsFault ==
  /\ OsFault
  /\ UNCHANGED hist

InitHold == InitWith(RaceCursors, Faults, Seeds)
NextHold ==
  \/ HoldFingerprint
  \/ HoldExtract
  \/ HoldPoll
  \/ HoldReset
  \/ HoldOsChange
  \/ HoldOsFault
SpecHold == InitHold /\ [][NextHold]_vars

\* ------------------------------------------------------------ one polling loop
\* One capture loop stepping through get_cursor while the OS sets cursors,
\* the counter taking a fresh nonzero value each time.
Poller == 1

LoopRead ==
  /\ TRead(Poller)
  /\ hist' = [hist EXCEPT !.sinceStop = IF @ = "none" THEN "first" ELSE "later"]

LoopCompare ==
  /\ TCompare(Poller)
  /\ hist' = IF threads'[Poller].pc = "idle" /\ hist.sinceStop = "first"
               THEN [hist EXCEPT !.firstOut = "None"]
               ELSE hist

LoopStore ==
  /\ TStore(Poller)
  /\ UNCHANGED hist

LoopFinish ==
  /\ TFinish(Poller)
  /\ LET out == threads'[Poller]
     IN  hist' = [hist EXCEPT
           !.delivered = @ \/ out.tag = "Some",
           !.last = IF out.tag = "Some" THEN out.id ELSE @,
           !.firstOut = IF hist.sinceStop = "first" THEN out.tag ELSE @]

LoopReset ==
  /\ RaceReset
  /\ UNCHANGED hist

\* The OS sets a cursor: the counter takes the next value, never 0 and never
\* a value it had.
LoopOsChange ==
  \E c \in RaceCursors :
    /\ osSeed < MaxFresh
    /\ cursor' = c
    /\ osSeed' = osSeed + 1
    /\ obs' = [obs EXCEPT !.fresh = {}, !.overlapped = FALSE, !.reported = FALSE,
                          !.again = FALSE]
    /\ hist' = [hist EXCEPT !.sinceStop = "none", !.firstOut = "none",
                            !.mid = threads[Poller].pc = "id"]
    /\ UNCHANGED <<fault, LATEST_SEED, threads, seqVars>>

InitLoop == InitWith(RaceCursors, {"none"}, {1})
NextLoop ==
  \/ LoopRead
  \/ LoopCompare
  \/ LoopStore
  \/ LoopFinish
  \/ LoopReset
  \/ LoopOsChange
SpecLoop == InitLoop /\ [][NextLoop]_vars

\* ------------------------------------------------------------ claims
\* The fingerprint can be computed: none of the four nil tests of
\* get_cursor_id fires.
Resolvable(f) == f \notin {"no_cursor", "no_image", "no_tiff", "no_rep"}
Stale(r) == r.tag = "Err" /\ r.msg = "cursor changed" /\ r.data.colors = <<>>
PollChanged == call.name = "get_cursor" /\ ret.tag # "None"

\* C1: whenever get_cursor_data(I1) is called while the fingerprint of the
\* current OS cursor is some I2 # I1, it returns the "cursor changed" error
\* and no pixel bytes, whatever cursor changes, polls and resets came before.
C1_RaceGuard ==
  (/\ call.name = "get_cursor_data"
   /\ Resolvable(fault)
   /\ Hcursor(cursor) # call.hcursor)
  => Stale(ret)

C1_Witness ==
  /\ call.name = "get_cursor_data"
  /\ Resolvable(fault)
  /\ call.hcursor \in LiveIds \ {0}
  /\ Hcursor(cursor) # call.hcursor
  /\ Stale(ret)
  /\ since.on /\ since.polls > 0
  /\ LATEST_SEED # Sentinel

\* C2: a get_cursor that reads the seed the previous get_cursor read, with no
\* reset_input_cache in between, returns Ok(None), calls nothing but the
\* seed query and leaves LATEST_SEED as it was.
C2_FastPath ==
  (/\ call.name = "get_cursor"
   /\ call.prev.kind = "poll"
   /\ call.prev.seed = call.seed)
  => /\ ret = OkNone
     /\ call.calls = <<"CGSCurrentCursorSeed">>
     /\ LATEST_SEED = call.stored

C2_Witness ==
  /\ call.name = "get_cursor"
  /\ call.prev.kind = "poll"
  /\ call.prev.seed = call.seed
  /\ call.seed # Sentinel
  /\ ret = OkNone
  /\ Resolvable(fault)

\* C3: the first get_cursor after reset_input_cache reports a change, for
\* every value of the OS counter.
C3_ResetForcesChange ==
  (call.name = "get_cursor" /\ call.prev.kind = "reset") => PollChanged

\* C4: after one OS cursor switch, with no reset and no further switch, exactly
\* one of the polls that follow reports a change, and it is the first.
C4_ExactlyOnce ==
  (since.on /\ since.polls >= 1) => (since.hits = 1 /\ since.first)

\* C5: a change that get_cursor detected and failed to fingerprint is
\* delivered by a later get_cursor once the cursor is resolvable, with no
\* further counter change: no get_cursor on a resolvable cursor leaves it
\* undelivered.
C5_UnavailableIsTransient ==
  ~(call.name = "get_cursor" /\ Resolvable(fault) /\ undelivered)

Min(a, b) == IF a < b THEN a ELSE b
AllSampleable(c) == \A p \in Coords(c.rw, c.rh) : c.pix[p] # Nil

\* C6: a successful get_cursor_data on a cursor whose representation is
\* W x H with every pixel sampleable returns exactly 4*W*H bytes, the bytes of
\* representation pixel (x, y) at offset 4*(y*W + x).
C6_ExtractionComplete ==
  (call.name = "get_cursor_data" /\ ret.tag = "Ok" /\ AllSampleable(cursor))
  => /\ Len(ret.data.colors) = 4 * cursor.rw * cursor.rh
     /\ \A p \in Coords(cursor.rw, cursor.rh) :
          LET off == 4 * (p[2] * cursor.rw + p[1])
              col == cursor.pix[p]
          IN  SubSeq(ret.data.colors, off + 1, off + 4) = <<col.r, col.g, col.b, col.a>>

\* The pixel section 4.3 of the spec samples in round i.
SpecSample(c, i) ==
  LET px == (c.rw * c.hx) \div c.w
      py == (c.rh * c.hy) \div c.h
  IN  c.pix[<<Min(px + i, c.rw - 1), Min(py + i, c.rh - 1)>>]
SpecSum(c, i) ==
  LET col == SpecSample(c, i)
  IN  IF col = Nil THEN 0 ELSE col.r + col.g + col.b + col.a
SpecBase(c) == c.w + c.h + c.hx + c.hy + c.rw + c.rh

\* The cursors with the geometry of c and the colours of c at the two
\* sampled pixels.
SameVisual(c) ==
  { d \in { MkCursor(<<c.w, c.h, c.hx, c.hy>>, <<c.rw, c.rh>>, im) : im \in Images(c.rw, c.rh) } :
      SpecSample(d, 0) = SpecSample(c, 0) /\ SpecSample(d, 1) = SpecSample(c, 1) }

\* C7: the identity get_cursor_id (alone or inside get_cursor) returns for the
\* current cursor is the one it returns for every cursor with the same image
\* size, hotspot, representation size and sampled colours, through any handle.
C7_IdentityStable ==
  ((call.name = "get_cursor_id" /\ ret.tag = "Ok") \/ (call.name = "get_cursor" /\ ret.tag = "Some"))
  => \A d \in SameVisual(cursor), hd \in Handles :
       get_cursor_id(d, "none", hd).id = ret.id

C7_Witness ==
  /\ call.name = "get_cursor_id" /\ ret.tag = "Ok" /\ ret.handle = 2
  /\ LATEST_SEED # Sentinel
  /\ \E d \in SameVisual(cursor) : d # cursor

\* C8 as stated: sample i has weight 255^i on channels normalized to [0,1].
C8_FormulaAsStated ==
  (call.name = "get_cursor_id" /\ ret.tag = "Ok")
  => ret.id = (SpecBase(cursor) * 255 + SpecSum(cursor, 0) + SpecSum(cursor, 1) * 255) \div 255

\* C8: sample i has weight 255 * 2^i on channels normalized to [0,1]: the
\* identity is floor(w + h + hx + hy + rep_w + rep_h + 255*s0 + 510*s1),
\* with s_i = r_i + g_i + b_i + a_i of the pixel the spec names, 0 if unreadable.
C8_Formula ==
  (call.name = "get_cursor_id" /\ ret.tag = "Ok")
  => ret.id = (SpecBase(cursor) * 255 + SpecSum(cursor, 0) * 255 + SpecSum(cursor, 1) * 510) \div 255

C8_Witness ==
  /\ call.name = "get_cursor_id" /\ ret.tag = "Ok"
  /\ SpecSample(cursor, 0) # SpecSample(cursor, 1)
  /\ SpecSum(cursor, 0) > 0 /\ SpecSum(cursor, 1) > 0
  /\ cursor.rw # cursor.w /\ cursor.hx > 0

IdA == Hcursor(CursorA)
IdB == Hcursor(CursorB)

\* C9: with cursor A shown, get_cursor_data(Ia) returns CursorData with
\* identity Ia, size 16x16, hotspot (0,0) and 1024 bytes, every pixel
\* [0,0,0,255].
C9_ScenarioA ==
  (cursor = CursorA /\ call.name = "get_cursor_data" /\ call.hcursor = IdA)
  => /\ ret.tag = "Ok"
     /\ ret.data = [id |-> IdA, width |-> 16, height |-> 16, hotx |-> 0, hoty |-> 0,
                    colors |-> [j \in 1 .. 1024 |-> IF j % 4 = 0 THEN 255 ELSE 0]]

C9_Witness ==
  /\ cursor = CursorA /\ call.name = "get_cursor_data" /\ call.hcursor = IdA
  /\ Len(ret.data.colors) = 1024

\* C10: with cursor B shown after A, get_cursor_id returns Ib # Ia,
\* get_cursor_data(Ia) fails with "cursor changed" and get_cursor_data(Ib)
\* returns 4096 bytes, all 255.
C10_ScenarioAB ==
  (cursor = CursorB /\ since.on) =>
    /\ (call.name = "get_cursor_id" => (ret.tag = "Ok" /\ ret.id = IdB /\ ret.id # IdA))
    /\ ((call.name = "get_cursor_data" /\ call.hcursor = IdA) => Stale(ret))
    /\ ((call.name = "get_cursor_data" /\ call.hcursor = IdB) =>
          /\ ret.tag = "Ok"
          /\ ret.data.colors = [j \in 1 .. 4096 |-> 255])

C10_Witness ==
  /\ cursor = CursorB /\ since.on
  /\ call.name = "get_cursor_data" /\ call.hcursor = IdB
  /\ Len(ret.data.colors) = 4096

\* C11: a successful get_cursor_data(hcursor) returns CursorData whose id is
\* hcursor, which is the fingerprint of the cursor read, whose hotspot is the
\* cursor's and whose width and height are the logical image size, also when
\* the representation has another size.
C11_Metadata ==
  (call.name = "get_cursor_data" /\ ret.tag = "Ok")
  => /\ ret.data.id = call.hcursor
     /\ ret.data.id = (SpecBase(cursor) * 255 + SpecSum(cursor, 0) * 255
                        + SpecSum(cursor, 1) * 510) \div 255
     /\ ret.data.hotx = cursor.hx /\ ret.data.hoty = cursor.hy
     /\ ret.data.width = cursor.w /\ ret.data.height = cursor.h

C11_Witness ==
  /\ call.name = "get_cursor_data" /\ ret.tag = "Ok"
  /\ cursor.rw # cursor.w /\ cursor.rh # cursor.h
  /\ cursor.hx > 0
  /\ ret.data.width = cursor.w

\* C12: get_cursor reports a change exactly when the seed it read differs from
\* the LATEST_SEED it found, and then leaves LATEST_SEED equal to that seed.
C12_ChangePath ==
  call.name = "get_cursor"
  => /\ (ret.tag # "None") <=> (call.seed # call.stored)
     /\ (ret.tag # "None") => LATEST_SEED = call.seed

C12_Witness ==
  /\ call.name = "get_cursor" /\ ret.tag = "Some"
  /\ call.seed # call.stored /\ call.stored # Sentinel
  /\ LATEST_SEED = call.seed

\* C13: after reset_input_cache LATEST_SEED is the sentinel, and a
\* reset_input_cache that follows another leaves LATEST_SEED as it found it.
C13_ResetIdempotent ==
  call.name = "reset_input_cache"
  => /\ LATEST_SEED = Sentinel
     /\ call.prev.kind = "reset" => LATEST_SEED = call.stored

C13_Witness ==
  /\ call.name = "reset_input_cache"
  /\ call.prev.kind = "reset"
  /\ osSeed # Sentinel
  /\ LATEST_SEED = Sentinel

C13_WitnessAfterPoll ==
  /\ call.name = "reset_input_cache"
  /\ call.prev.kind = "poll"
  /\ call.stored # Sentinel
  /\ LATEST_SEED = Sentinel

\* C14: the first get_cursor of the process reports a change, for every
\* value of the OS counter.
C14_FirstPollChanged ==
  (call.name = "get_cursor" /\ call.prev.kind = "none") => PollChanged

\* The positions get_cursor_data visits whose colour can be read, and how
\* many of them come before p in row-major order.
WalkedReadable(c) ==
  { p \in Coords(c.w, c.h) : p[1] < c.rw /\ p[2] < c.rh /\ c.pix[p] # Nil }
Before(c, p) ==
  Cardinality({ q \in WalkedReadable(c) : q[2] < p[2] \/ (q[2] = p[2] /\ q[1] < p[1]) })

\* C15: a successful get_cursor_data returns 4 bytes for each visited position
\* whose colour can be read and none for the others: the readable pixels
\* follow each other in row-major order with nothing between them.
C15_SkippedNotZeroFilled ==
  (call.name = "get_cursor_data" /\ ret.tag = "Ok")
  => /\ Len(ret.data.colors) = 4 * Cardinality(WalkedReadable(cursor))
     /\ Len(ret.data.colors) % 4 = 0
     /\ Len(ret.data.colors) <= 4 * cursor.w * cursor.h
     /\ \A p \in WalkedReadable(cursor) :
          LET off == 4 * Before(cursor, p)
              col == cursor.pix[p]
          IN  SubSeq(ret.data.colors, off + 1, off + 4) = <<col.r, col.g, col.b, col.a>>

C15_Witness ==
  /\ call.name = "get_cursor_data" /\ ret.tag = "Ok"
  /\ cursor.w = 2 /\ cursor.h = 2 /\ cursor.rw = 2 /\ cursor.rh = 2
  /\ cursor.pix[<<1, 0>>] = Nil
  /\ cursor.pix[<<0, 1>>] # cursor.pix[<<0, 0>>]
  /\ Len(ret.data.colors) = 12

\* C16: get_cursor_id and get_cursor_data leave LATEST_SEED as they found it,
\* whether they succeed, fail for want of a cursor or fail as stale.
C16_Frame ==
  call.name \in {"get_cursor_id", "get_cursor_data"} => LATEST_SEED = call.stored

C16_Witness ==
  /\ call.name = "get_cursor_data" /\ Stale(ret)
  /\ LATEST_SEED # Sentinel /\ LATEST_SEED # osSeed

C16_WitnessUnavailable ==
  /\ call.name = "get_cursor_id" /\ ret.tag = "Err"
  /\ LATEST_SEED # Sentinel /\ LATEST_SEED # osSeed

\* The cursors with the geometry of c.
SameGeometry(c) ==
  { MkCursor(<<c.w, c.h, c.hx, c.hy>>, <<c.rw, c.rh>>, im) : im \in Images(c.rw, c.rh) }

\* C17: two cursors of the same geometry that get the same identity have the
\* same channel total at sample 0 and the same channel total at sample 1.
C17_SamplesSeparated ==
  (call.name = "get_cursor_id" /\ ret.tag = "Ok"
     /\ SpecSample(cursor, 0) # Nil /\ SpecSample(cursor, 1) # Nil)
  => \A d \in SameGeometry(cursor) :
       (/\ SpecSample(d, 0) # Nil /\ SpecSample(d, 1) # Nil
        /\ get_cursor_id(d, "none", 1).id = ret.id)
       => /\ SpecSum(d, 0) = SpecSum(cursor, 0)
          /\ SpecSum(d, 1) = SpecSum(cursor, 1)

\* C18: both pixels get_cursor_id samples lie inside the representation, at
\* (min(px + i, rep_w - 1), min(py + i, rep_h - 1)).
C18_SampleInBounds ==
  (call.name = "get_cursor_id" /\ ret.tag = "Ok"
     /\ cursor.rw >= 1 /\ cursor.rh >= 1
     /\ cursor.hx < cursor.w /\ cursor.hy < cursor.h)
  => \A i \in {0, 1} :
       LET px == (cursor.rw * cursor.hx) \div cursor.w
           py == (cursor.rh * cursor.hy) \div cursor.h
       IN  /\ SampleX(cursor, i) \in 0 .. cursor.rw - 1
           /\ SampleY(cursor, i) \in 0 .. cursor.rh - 1
           /\ SampleX(cursor, i) = Min(px + i, cursor.rw - 1)
           /\ SampleY(cursor, i) = Min(py + i, cursor.rh - 1)

C18_Witness ==
  /\ call.name = "get_cursor_id" /\ ret.tag = "Ok"
  /\ cursor.rw = 2 /\ cursor.w = 2 /\ cursor.hx = 1
  /\ cursor.rh = 2 /\ cursor.h = 1
  /\ SampleX(cursor, 1) = 1 /\ SampleY(cursor, 0) = 0 /\ SampleY(cursor, 1) = 1

\* C19: one value of the OS counter is reported 'changed' a second time (no
\* reset in between) only if get_cursor calls overlapped; calls that run one
\* after the other report it once.
C19_DoubleReportNeedsOverlap ==
  obs.again => obs.overlapped

\* Both callers have returned 'changed' for the same counter value.
C19_Witness ==
  /\ obs.again
  /\ obs.fresh = Threads
  /\ \A t \in Threads : threads[t].pc = "idle" /\ threads[t].tag = "Some"
  /\ threads[1].seed = threads[2].seed

\* C20: when reset_input_cache ran while a get_cursor was between its test and
\* its store, the first get_cursor started after both have returned reports a
\* change (the counter not being the sentinel value).
C20_ResetNotLost ==
  obs.after.seen => obs.after.changed

\* C21: once get_cursor_id has returned an identity for the cursor shown and
\* the cursor's geometry and pixels have not changed since, get_cursor_data
\* called with that identity never fails with "cursor changed", and it
\* succeeds whenever the OS hands out the cursor and its representations;
\* whatever polls, resets and counter moves came in between and whichever
\* cursor object the OS hands out.
C21_NoSpuriousStale ==
  (call.name = "get_cursor_data" /\ hist.held /\ call.hcursor = hist.id)
  => /\ ~Stale(ret)
     /\ fault = "none" => (ret.tag = "Ok" /\ ret.data.id = hist.id)

\* The held identity was extracted after a poll, a reset and a counter move.
C21_Witness ==
  /\ call.name = "get_cursor_data" /\ hist.held /\ call.hcursor = hist.id
  /\ ret.tag = "Ok"
  /\ hist.events = {"poll", "reset", "seed"}
  /\ LATEST_SEED # osSeed

\* C22: with one polling loop, a resolvable cursor and fresh nonzero counter
\* values, the first get_cursor that reads the counter after the last cursor
\* change returns the identity of the cursor shown, and from its return on the
\* identity last delivered is the identity of the cursor shown.
C22_EventualAgreement ==
  hist.firstOut # "none"
  => /\ hist.firstOut = "Some"
     /\ hist.delivered
     /\ hist.last = Hcursor(cursor)

\* The cursor last changed between the store and the fingerprint of one
\* get_cursor; the next get_cursor delivered its identity and a later one
\* reported nothing new.
C22_Witness ==
  /\ hist.mid
  /\ hist.firstOut = "Some"
  /\ hist.sinceStop = "later"
  /\ threads[Poller].pc = "idle" /\ threads[Poller].tag = "None"
  /\ hist.last = Hcursor(cursor)
  /\ osSeed = MaxFresh

====
